---- MODULE Spec2Model ----
(***************************************************************************)
(* A model of packages/lib/src/helpers.ts of svelte-form: the pure helper  *)
(* functions defaultValue / objectDefaultValue, normalizeValue /           *)
(* normalizeObject, errorsToMap, repackComponents, getComponent and        *)
(* getComponentProps.                                                      *)
(*                                                                         *)
(* JavaScript values are tagged records:                                   *)
(*   [kind |-> "null"], [kind |-> "undefined"],                            *)
(*   [kind |-> "string", s |-> s], [kind |-> "number", n |-> n],           *)
(*   [kind |-> "array",  items |-> <<...>>, kv |-> named properties],      *)
(*   [kind |-> "object", kv |-> function from own keys to values].         *)
(* A call is one behaviour: Init draws the function and its arguments, the *)
(* function's action computes the return value (or records the exception   *)
(* that escapes it).                                                       *)
(***************************************************************************)
EXTENDS Integers, Sequences, FiniteSets, TLC

VARIABLES fn, args, ret, pc

vars == <<fn, args, ret, pc>>

(***************************************************************************)
(* JavaScript values                                                       *)
(***************************************************************************)
Null == [kind |-> "null"]

Undefined == [kind |-> "undefined"]

Str(s) == [kind |-> "string", s |-> s]

Num(n) == [kind |-> "number", n |-> n]

Obj(f) == [kind |-> "object", kv |-> f]

Arr(s) == [kind |-> "array", items |-> s, kv |-> <<>>]

EmptyObj == Obj(<<>>)

\* The exception a call such as  x.push(...)  raises when x.push is no function.
TypeError == [kind |-> "TypeError"]

\* All functions from a subset of the keys K to the values V: the plain
\* objects with own keys among K.
Mappings(K, V) == UNION {[D -> V] : D \in SUBSET K}

\* JavaScript truthiness (what  a && b,  a || b  and  if (a)  test).
Truthy(v) ==
  CASE v.kind \in {"null", "undefined"} -> FALSE
    [] v.kind = "string" -> v.s # ""
    [] v.kind = "number" -> v.n # 0
    [] OTHER -> TRUE

\* The property read  v[k]  for a key k that is neither an array index nor a
\* name found on a prototype: an own property of an object or array, else
\* undefined.
Get(v, k) ==
  IF v.kind \in {"object", "array"} /\ k \in DOMAIN v.kv THEN v.kv[k] ELSE Undefined

\* The assignment  o[k] = v  on an object or an array, as a new value.
Put(o, k, v) ==
  [o EXCEPT !.kv = [x \in (DOMAIN o.kv) \cup {k} |-> IF x = k THEN v ELSE o.kv[x]]]

(***************************************************************************)
(* defaultValue / objectDefaultValue                                       *)
(*                                                                         *)
(* A schema is [tag |-> "schema", type, default, properties]; a property   *)
(* declared as a bare true/false is [tag |-> "boolean"].  An absent        *)
(* default or properties member is Undefined; properties, when present, is *)
(* an Obj whose values are schemas.                                        *)
(***************************************************************************)
Schema(t, d, p) == [tag |-> "schema", type |-> t, default |-> d, properties |-> p]

BoolSchema == [tag |-> "boolean"]

\* value && value[k]
ItemOf(value, k) == IF Truthy(value) THEN Get(value, k) ELSE value

\* if (value === null && schema.default !== undefined) value = schema.default
SubstituteDefault(schema, value) ==
  IF value = Null /\ schema.default # Undefined THEN schema.default ELSE value

\* value || []
ArrayDefault(value) == IF Truthy(value) THEN value ELSE Arr(<<>>)

\* The keys objectDefaultValue assigns: the declared properties whose schema
\* is not a boolean.
DefaultedKeys(schema) ==
  IF Truthy(schema.properties)
    THEN {k \in DOMAIN schema.properties.kv : schema.properties.kv[k].tag # "boolean"}
    ELSE {}

RECURSIVE defaultValue(_, _)
\* objectDefaultValue starting from a copy of the input mapping instead of
\* from {}: the input's own keys are kept.
objectDefaultValueKeepsInput(schema, value) ==
  LET own == IF value.kind = "object" THEN DOMAIN value.kv ELSE {} IN
  Obj([k \in DefaultedKeys(schema) \cup own |->
         IF k \in DefaultedKeys(schema)
           THEN defaultValue(schema.properties.kv[k], ItemOf(value, k))
           ELSE value.kv[k]])

objectDefaultValue(schema, value) ==
  Obj([k \in DefaultedKeys(schema) |->
         defaultValue(schema.properties.kv[k], ItemOf(value, k))])

defaultValue(schema, value) ==
  LET v == SubstituteDefault(schema, value) IN
  CASE schema.type = "object" -> objectDefaultValue(schema, v)
    [] schema.type = "array" -> ArrayDefault(v)
    [] OTHER -> v

(***************************************************************************)
(* normalizeValue / normalizeObject                                        *)
(***************************************************************************)
\* typeDetect(v) === 'Object'
IsObject(v) == v.kind = "object"

\* EmptyResult without the isRoot test: an empty root collapses to null too.
EmptyResultNoRoot(obj, isRoot) == IF DOMAIN obj.kv # {} THEN obj ELSE Null

\* Object.keys(obj).length ? obj : isRoot ? {} : null
EmptyResult(obj, isRoot) ==
  IF DOMAIN obj.kv # {} THEN obj ELSE IF isRoot THEN EmptyObj ELSE Null

\* if (v !== null) obj[k] = v
Kept(v) == v # Null

RECURSIVE normalizeObject(_, _)
\* typeDetect(v) === 'Object' ? normalizeObject(v, false) : v
NormalizeItem(v) == IF IsObject(v) THEN normalizeObject(v, FALSE) ELSE v

\* normalizeObject testing v !== null before the nested call instead of after
\* it: a nested mapping that collapses is stored as null.
normalizeObjectTestsFirst(value, isRoot) ==
  LET obj == Obj([k \in {x \in DOMAIN value.kv : Kept(value.kv[x])} |->
                    NormalizeItem(value.kv[k])])
  IN EmptyResult(obj, isRoot)

normalizeObject(value, isRoot) ==
  LET n == [k \in DOMAIN value.kv |-> NormalizeItem(value.kv[k])]
      obj == Obj([k \in {x \in DOMAIN n : Kept(n[x])} |-> n[k]])
  IN EmptyResult(obj, isRoot)

normalizeValue(value) == IF IsObject(value) THEN normalizeObject(value, TRUE) ELSE value

(***************************************************************************)
(* errorsToMap                                                             *)
(*                                                                         *)
(* Strings that are split are sequences of one-character strings, so that  *)
(* split('.') is computed.  An error record is                             *)
(* [dataPath, keyword, params]; the returned tree is an Obj whose keys are *)
(* path segments (character sequences) and whose leaves are arrays of      *)
(* error records.                                                          *)
(***************************************************************************)
Dot == "."

\* The least index of a '.' in s, or 0.
FirstDot(s) ==
  IF \E i \in 1..Len(s) : s[i] = Dot
    THEN CHOOSE i \in 1..Len(s) : s[i] = Dot /\ \A j \in 1..(i - 1) : s[j] # Dot
    ELSE 0

\* String.prototype.split('.'): the pieces between the dots, <<"">> for "".
RECURSIVE Split(_)
Split(s) ==
  LET i == FirstDot(s) IN
  IF i = 0 THEN <<s>>
           ELSE <<SubSeq(s, 1, i - 1)>> \o Split(SubSeq(s, i + 1, Len(s)))

\* Slice1 with the slice forgotten: the leading empty segment is kept.
Slice1KeepsAll(a) == a

\* Array.prototype.slice(1)
Slice1(a) == IF a = <<>> THEN <<>> ELSE Tail(a)

\* error.keyword === 'required' ? `.${error.params.missingProperty}` : ''
PathSuffix(error) ==
  IF error.keyword = "required" THEN <<Dot>> \o error.params.missingProperty ELSE <<>>

\* `${error.dataPath}${pathSuffix}`.split('.').slice(1)
FieldPath(error) == Slice1(Split(error.dataPath \o PathSuffix(error)))

\* AddAtKey with unshift in place of push: the newest record comes first.
AddAtKeyInFront(obj, key, error) ==
  LET at == Get(obj, key) IN
  IF Truthy(at)
    THEN IF at.kind = "array"
           THEN Put(obj, key, [at EXCEPT !.items = <<error>> \o at.items])
           ELSE TypeError
    ELSE Put(obj, key, Arr(<<error>>))

\* The last step of the inner reduce: push onto what is at obj[key], or
\* start a list there.  push exists on arrays only.
AddAtKey(obj, key, error) ==
  LET at == Get(obj, key) IN
  IF Truthy(at)
    THEN IF at.kind = "array"
           THEN Put(obj, key, [at EXCEPT !.items = Append(at.items, error)])
           ELSE TypeError
    ELSE Put(obj, key, Arr(<<error>>))

\* The steps before the last: obj[key] ? obj[key] : (obj[key] = obj[key] || {})
ChildAt(obj, key) == IF Truthy(Get(obj, key)) THEN Get(obj, key) ELSE EmptyObj

\* path.reduce(..., obj) for a path of at least one segment: the value of obj
\* after the walk has mutated it, or the TypeError that escapes.
RECURSIVE PathReduce(_, _, _)
PathReduce(obj, path, error) ==
  IF Len(path) = 1
    THEN AddAtKey(obj, Head(path), error)
    ELSE LET child == PathReduce(ChildAt(obj, Head(path)), Tail(path), error) IN
         IF child = TypeError THEN TypeError ELSE Put(obj, Head(path), child)

\* One step of the outer reduce; reduce over an empty path calls nothing.
AddError(acc, error) ==
  IF FieldPath(error) = <<>> THEN acc ELSE PathReduce(acc, FieldPath(error), error)

RECURSIVE ReduceErrors(_, _)
ReduceErrors(acc, errors) ==
  IF errors = <<>> THEN acc
  ELSE LET next == AddError(acc, Head(errors)) IN
       IF next = TypeError THEN TypeError ELSE ReduceErrors(next, Tail(errors))

errorsToMap(errors) == ReduceErrors(EmptyObj, errors)

(***************************************************************************)
(* repackComponents / getComponent / getComponentProps                     *)
(*                                                                         *)
(* A registry is an Obj keyed by schema type names and, optionally,        *)
(* "path".  A component is [kind |-> "component", name]; a (component,     *)
(* props) pair is an array of two items.                                   *)
(***************************************************************************)
Component(n) == [kind |-> "component", name |-> n]

Pair(c, props) == Arr(<<c, props>>)

\* a[0], a[1]
Item0(a) == IF Len(a.items) >= 1 THEN a.items[1] ELSE Undefined

Item1(a) == IF Len(a.items) >= 2 THEN a.items[2] ELSE Undefined

\* Array.isArray
IsArray(v) == v.kind = "array"

\* components.path && components.path[key]
PathComponent(components, key) == ItemOf(Get(components, "path"), key)

\* Repacks without the test of the type.
RepacksAnyType(components, type) == Truthy(Get(components, "path"))

\* The guard of the override branch of repackComponents.
Repacks(components, type) == type = "object" /\ Truthy(Get(components, "path"))

repackComponents(components, type, key) ==
  IF Repacks(components, type)
    THEN Put(components, "path", Get(Get(components, "path"), key))
    ELSE components

\* Overrides without the test of the type.
OverridesAnyType(components, type, key) == Truthy(PathComponent(components, key))

\* The guard of the override branch of getComponent.
Overrides(components, type, key) ==
  type = "object" /\ Truthy(PathComponent(components, key))

getComponent(components, type, key) ==
  IF Overrides(components, type, key)
    THEN IF IsArray(PathComponent(components, key))
           THEN Item0(PathComponent(components, key))
           ELSE PathComponent(components, key)
    ELSE Get(components, type)

\* The guard of the override branch of getComponentProps.
HasProps(components, type, key) ==
  /\ type = "object"
  /\ Truthy(PathComponent(components, key))
  /\ IsArray(PathComponent(components, key))

getComponentProps(components, type, key) ==
  IF HasProps(components, type, key)
    THEN Item1(PathComponent(components, key))
    ELSE EmptyObj

(***************************************************************************)
(* Bounds and the arguments the calls are made with                        *)
(***************************************************************************)
\* The longest list of error records passed to errorsToMap.
MaxErrors == 3

\* The nesting depth of the values passed to normalizeValue.
ValueDepth == 2

\* The nesting depth of the object schemas passed to defaultValue, and of
\* the values passed with them.
SchemaDepth == 2

\* The nesting depth of the path overrides of a registry.
PathDepth == 1

\* --- errorsToMap ---------------------------------------------------------
\* Data paths as the validation engine writes them: "" for the root, and one
\* ".name" per level below it.
DataPaths ==
  { <<>>, <<".", "a">>, <<".", "a", ".", "b">>, <<".", "f", "o", "o">> }

MissingProperties == { <<"b">>, <<"b", "a", "r">> }

TypeErrorAt(dp) == [dataPath |-> dp, keyword |-> "type", params |-> [type |-> "string"]]

RequiredAt(dp, m) ==
  [dataPath |-> dp, keyword |-> "required", params |-> [missingProperty |-> m]]

ErrorObjects ==
  {TypeErrorAt(dp) : dp \in DataPaths}
    \cup {RequiredAt(dp, m) : dp \in DataPaths, m \in MissingProperties}

ErrorLists == UNION {[1..n -> ErrorObjects] : n \in 0..MaxErrors}

\* --- normalizeValue ------------------------------------------------------
ValueKeys == {"a", "b"}

ValueLeaves == {Null, Num(1), Arr(<<Null, EmptyObj>>)}

RECURSIVE JsonValues(_)
JsonValues(d) ==
  IF d = 0 THEN ValueLeaves
  ELSE LET below == JsonValues(d - 1) IN
       ValueLeaves \cup {Obj(f) : f \in Mappings(ValueKeys, below)}

\* {a: {}, b: {c: 1}}
NestedExample ==
  Obj([k \in {"a", "b"} |-> IF k = "a" THEN EmptyObj ELSE Obj([c \in {"c"} |-> Num(1)])])

NormalizeInputs == JsonValues(ValueDepth) \cup {NestedExample}

\* --- defaultValue --------------------------------------------------------
\* {type: "string", default: "x"}, {type: "number"}, {type: "array"}
StringX == Schema("string", Str("x"), Undefined)

NumberSchema == Schema("number", Undefined, Undefined)

ArraySchema == Schema("array", Undefined, Undefined)

LeafSchemas == {StringX, NumberSchema, ArraySchema}

\* The default of an object schema, when it has one: {a: "y"}
ObjectDefault == Obj([k \in {"a"} |-> Str("y")])

\* A mapping with keys among {k1, k2}: k1 absent or in V1, k2 absent or in V2.
TwoKeyMappings(k1, V1, k2, V2) ==
  {<<>>} \cup [{k1} -> V1] \cup [{k2} -> V2]
    \cup {[k \in {k1, k2} |-> IF k = k1 THEN v1 ELSE v2] : v1 \in V1, v2 \in V2}

\* Object schemas nested to depth d >= 1.  Properties are declared under the
\* keys "a" and "b"; nested object schemas occur under "a".
RECURSIVE ObjectSchemas(_)
ObjectSchemas(d) ==
  LET flat == LeafSchemas \cup {BoolSchema}
      deep == IF d > 1 THEN flat \cup ObjectSchemas(d - 1) ELSE flat
      props == {Undefined} \cup {Obj(f) : f \in TwoKeyMappings("a", deep, "b", flat)}
  IN {Schema("object", dflt, p) : dflt \in {Undefined, ObjectDefault}, p \in props}

Schemas == LeafSchemas \cup ObjectSchemas(SchemaDepth)

\* The values passed with a schema: null, a string, the falsy number 0, and
\* mappings that hold the declared key "a", the undeclared key "c", or both.
DefaultLeaves == {Null, Str("v"), Num(0)}

RECURSIVE DefaultValues(_)
DefaultValues(d) ==
  IF d = 0 THEN DefaultLeaves
  ELSE LET below == DefaultValues(d - 1) IN
       DefaultLeaves \cup {Obj(f) : f \in TwoKeyMappings("a", below, "c", {Str("v")})}

\* --- the component registry ----------------------------------------------
CompA == Component("CompA")

CompB == Component("CompB")

ObjectComp == Component("ObjectComp")

StringComp == Component("StringComp")

\* {x: 1}
PropsX == Obj([k \in {"x"} |-> Num(1)])

TypeNames == {"object", "string"}

FieldKeys == {"name", "address"}

FlatEntries == {CompA, CompB, Pair(CompA, PropsX)}

\* Path mappings nested to depth d: bare components, pairs and, under
\* "address", nested path mappings.
RECURSIVE PathMappings(_)
PathMappings(d) ==
  LET deep == IF d > 0 THEN FlatEntries \cup PathMappings(d - 1) ELSE FlatEntries
  IN {Obj(f) : f \in TwoKeyMappings("name", FlatEntries, "address", deep)}

TypeComponents == [t \in TypeNames |-> IF t = "object" THEN ObjectComp ELSE StringComp]

\* {address: {path: {city: CompB}}}
NestedPathExample ==
  Obj([k \in {"address"} |->
        Obj([p \in {"path"} |-> Obj([c \in {"city"} |-> CompB])])])

Registries ==
  {Obj(TypeComponents)}
    \cup {Put(Obj(TypeComponents), "path", p) :
            p \in PathMappings(PathDepth) \cup {NestedPathExample}}

(***************************************************************************)
(* The calls                                                               *)
(***************************************************************************)
Pending == [kind |-> "pending"]

Init ==
  /\ pc = "call"
  /\ ret = Pending
  /\ \/ fn = "errorsToMap" /\ args \in [errors : ErrorLists]
     \/ fn = "normalizeValue" /\ args \in [value : NormalizeInputs]
     \/ fn = "defaultValue"
          /\ args \in [schema : Schemas, value : DefaultValues(SchemaDepth)]
     \/ fn \in {"repackComponents", "getComponent", "getComponentProps"}
          /\ args \in [components : Registries, type : TypeNames, key : FieldKeys]

ErrorsToMap ==
  /\ pc = "call"
  /\ fn = "errorsToMap"
  /\ ret' = errorsToMap(args.errors)
  /\ pc' = "done"
  /\ UNCHANGED <<fn, args>>

NormalizeValue ==
  /\ pc = "call"
  /\ fn = "normalizeValue"
  /\ ret' = normalizeValue(args.value)
  /\ pc' = "done"
  /\ UNCHANGED <<fn, args>>

DefaultValue ==
  /\ pc = "call"
  /\ fn = "defaultValue"
  /\ ret' = defaultValue(args.schema, args.value)
  /\ pc' = "done"
  /\ UNCHANGED <<fn, args>>

RepackComponents ==
  /\ pc = "call"
  /\ fn = "repackComponents"
  /\ ret' = repackComponents(args.components, args.type, args.key)
  /\ pc' = "done"
  /\ UNCHANGED <<fn, args>>

GetComponent ==
  /\ pc = "call"
  /\ fn = "getComponent"
  /\ ret' = getComponent(args.components, args.type, args.key)
  /\ pc' = "done"
  /\ UNCHANGED <<fn, args>>

GetComponentProps ==
  /\ pc = "call"
  /\ fn = "getComponentProps"
  /\ ret' = getComponentProps(args.components, args.type, args.key)
  /\ pc' = "done"
  /\ UNCHANGED <<fn, args>>

Next ==
  \/ ErrorsToMap
  \/ NormalizeValue
  \/ DefaultValue
  \/ RepackComponents
  \/ GetComponent
  \/ GetComponentProps

Spec == Init /\ [][Next]_vars

(***************************************************************************)
(* Properties of errorsToMap                                               *)
(***************************************************************************)
Returned(f) == pc = "done" /\ fn = f

\* Every list held in a tree, with the path of keys that leads to it.  Keys
\* are followed through plain objects and through the named properties of
\* arrays alike.
RECURSIVE ListsOf(_, _)
ListsOf(node, prefix) ==
  UNION { LET child == node.kv[k]
              path == Append(prefix, k)
          IN (IF child.kind = "array"
                THEN {[path |-> path, items |-> child.items]}
                ELSE {})
               \cup ListsOf(child, path)
          : k \in DOMAIN node.kv }

\* Every key, at every level, maps to a nested tree or to a non-empty list
\* that carries no keys of its own.
RECURSIVE ExactlyOneOf(_)
ExactlyOneOf(tree) ==
  \A k \in DOMAIN tree.kv :
    LET child == tree.kv[k] IN
    \/ child.kind = "object" /\ ExactlyOneOf(child)
    \/ child.kind = "array" /\ child.items # <<>> /\ DOMAIN child.kv = {}

\* C1: every key at every level of the tree errorsToMap returns maps to
\* exactly one of a nested sub-tree or a non-empty list of error records,
\* never to a list that also carries path-segment keys, also when one
\* record's field path is a strict prefix of another's.
C1_SubtreeOrList ==
  (Returned("errorsToMap") /\ ret # TypeError) => ExactlyOneOf(ret)

\* The string a record is reported at: its data path, extended by
\* ".missingProperty" for a "required" record and for no other.
ReportedAt(e) ==
  IF e.keyword = "required"
    THEN e.dataPath \o <<".">> \o e.params.missingProperty
    ELSE e.dataPath

\* ".seg" for every segment of a path, concatenated.
RECURSIVE Joined(_)
Joined(path) ==
  IF path = <<>> THEN <<>> ELSE <<".">> \o Head(path) \o Joined(Tail(path))

DotFree(path) == \A i \in 1..Len(path) : \A j \in 1..Len(path[i]) : path[i][j] # "."

InList(e, l) == \E i \in 1..Len(l.items) : l.items[i] = e

\* [{dataPath: ".foo", keyword: "type"},
\*  {dataPath: "", keyword: "required", params: {missingProperty: "bar"}}]
FooBarErrors ==
  << TypeErrorAt(<<".", "f", "o", "o">>), RequiredAt(<<>>, <<"b", "a", "r">>) >>

\* {foo: [first record], bar: [second record]}
FooBarTree ==
  Obj([k \in {<<"f", "o", "o">>, <<"b", "a", "r">>} |->
         IF k = <<"f", "o", "o">> THEN Arr(<<FooBarErrors[1]>>)
                                  ELSE Arr(<<FooBarErrors[2]>>)])

\* C2: the field path errorsToMap computes for a record is the list of
\* dot-free segments that, each written after a '.', spell the record's data
\* path (extended by ".missingProperty" for a "required" record and for no
\* other); in the tree it returns every record is filed under that path and
\* every record reported below the root is filed; and the records of the
\* example yield {foo: [...], bar: [...]}.
C2_FiledUnderFieldPath ==
  /\ Returned("errorsToMap") =>
       \A i \in 1..Len(args.errors) :
         /\ DotFree(FieldPath(args.errors[i]))
         /\ Joined(FieldPath(args.errors[i])) = ReportedAt(args.errors[i])
  /\ (Returned("errorsToMap") /\ ret # TypeError) =>
    /\ \A l \in ListsOf(ret, <<>>) :
         /\ DotFree(l.path)
         /\ \A i \in 1..Len(l.items) : Joined(l.path) = ReportedAt(l.items[i])
    /\ \A i \in 1..Len(args.errors) :
         ReportedAt(args.errors[i]) # <<>> =>
           \E l \in ListsOf(ret, <<>>) : InList(args.errors[i], l)
    /\ args.errors = FooBarErrors => ret = FooBarTree

C2_Witness ==
  Returned("errorsToMap") /\ args.errors = FooBarErrors /\ ret = FooBarTree

\* The records of the input whose field path is path, in input order.
RECURSIVE WithPath(_, _)
WithPath(errors, path) ==
  IF errors = <<>> THEN <<>>
  ELSE (IF FieldPath(Head(errors)) = path THEN <<Head(errors)>> ELSE <<>>)
         \o WithPath(Tail(errors), path)

\* C9: every list of the tree errorsToMap returns holds the records of the
\* input that have the list's exact field path, all of them, in the order in
\* which they occur in the input; the records that share a path of one or
\* more segments are in one list at that path.
C9_InputOrderKept ==
  (Returned("errorsToMap") /\ ret # TypeError) =>
    /\ \A l \in ListsOf(ret, <<>>) : l.items = WithPath(args.errors, l.path)
    /\ \A i \in 1..Len(args.errors) :
         FieldPath(args.errors[i]) # <<>> =>
           \E l \in ListsOf(ret, <<>>) : l.path = FieldPath(args.errors[i])

C9_Witness ==
  /\ Returned("errorsToMap")
  /\ ret # TypeError
  /\ \E l \in ListsOf(ret, <<>>) :
       /\ Len(l.items) = 2
       /\ l.items[1] # l.items[2]
       /\ Len(args.errors) = 3
       /\ l.items = <<args.errors[1], args.errors[3]>>

Occurrences(e, items) == Cardinality({i \in 1..Len(items) : items[i] = e})

RECURSIVE TotalOccurrences(_, _)
TotalOccurrences(e, lists) ==
  IF lists = {} THEN 0
  ELSE LET l == CHOOSE x \in lists : TRUE IN
       Occurrences(e, l.items) + TotalOccurrences(e, lists \ {l})

\* C10: each error record of the input occurs exactly once among the lists
\* of the tree errorsToMap returns, a record reported at the schema root
\* included.
C10_NoErrorLost ==
  (Returned("errorsToMap") /\ ret # TypeError) =>
    \A i \in 1..Len(args.errors) :
      TotalOccurrences(args.errors[i], ListsOf(ret, <<>>))
        = Occurrences(args.errors[i], args.errors)

(***************************************************************************)
(* Properties of defaultValue                                              *)
(***************************************************************************)
\* The properties an object schema declares with a schema, not a boolean.
DeclaredSchemas(schema) ==
  IF schema.properties = Undefined THEN {}
  ELSE {k \in DOMAIN schema.properties.kv : schema.properties.kv[k] # BoolSchema}

\* The declared properties whose schema is of a plain type and has a default.
DeclaredWithDefault(schema) ==
  {k \in DeclaredSchemas(schema) :
     /\ schema.properties.kv[k].type \notin {"object", "array"}
     /\ schema.properties.kv[k].default # Undefined}

\* The sub-value for k is null or absent: the input is null and the schema
\* has no default of its own to put in its place, or the input is a mapping
\* that lacks k or holds null there.
NullOrAbsent(schema, value, k) ==
  \/ value = Null /\ schema.default = Undefined
  \/ value.kind = "object" /\ (k \notin DOMAIN value.kv \/ value.kv[k] = Null)

\* C5: for an object schema, each declared property whose sub-schema has a
\* default receives that default when the input value is null and likewise
\* when the input value is a mapping that lacks the property's key.
C5_DefaultWhenAbsent ==
  (Returned("defaultValue") /\ args.schema.type = "object") =>
    \A k \in DeclaredWithDefault(args.schema) :
      NullOrAbsent(args.schema, args.value, k) =>
        /\ ret.kind = "object"
        /\ k \in DOMAIN ret.kv
        /\ ret.kv[k] = args.schema.properties.kv[k].default

\* C6: for an object schema and an input that is null or a mapping,
\* defaultValue returns a mapping whose keys are exactly the declared
\* properties whose sub-schema is not a boolean.
C6_ExactlyDeclaredKeys ==
  (/\ Returned("defaultValue")
   /\ args.schema.type = "object"
   /\ args.value.kind \in {"null", "object"}) =>
    /\ ret.kind = "object"
    /\ DOMAIN ret.kv = DeclaredSchemas(args.schema)

C6_Witness ==
  /\ Returned("defaultValue")
  /\ args.schema.type = "object"
  /\ args.schema.properties # Undefined
  /\ DOMAIN args.schema.properties.kv = {"a", "b"}
  /\ args.schema.properties.kv["b"] = BoolSchema
  /\ args.value.kind = "object"
  /\ "c" \in DOMAIN args.value.kv
  /\ ret.kind = "object"
  /\ DOMAIN ret.kv = {"a"}

(***************************************************************************)
(* Properties of normalizeValue                                            *)
(***************************************************************************)
\* No mapping reachable through mapping keys holds null or an empty mapping.
RECURSIVE NoNullNoEmpty(_)
NoNullNoEmpty(m) ==
  \A k \in DOMAIN m.kv :
    /\ m.kv[k] # Null
    /\ m.kv[k] # EmptyObj
    /\ m.kv[k].kind = "object" => NoNullNoEmpty(m.kv[k])

\* {b: {c: 1}}
NestedExampleNormalized == Obj([k \in {"b"} |-> Obj([c \in {"c"} |-> Num(1)])])

\* C7: for a mapping, normalizeValue returns a mapping, never null, in which
\* no mapping reachable through mapping keys holds null or an empty mapping;
\* the keys are keys of the input and every value that is neither null nor a
\* mapping is kept; {} yields {} and {a: {}, b: {c: 1}} yields {b: {c: 1}}.
C7_RootStaysMapping ==
  (Returned("normalizeValue") /\ args.value.kind = "object") =>
    /\ ret.kind = "object"
    /\ NoNullNoEmpty(ret)
    /\ DOMAIN ret.kv \subseteq DOMAIN args.value.kv
    /\ \A k \in DOMAIN args.value.kv :
         args.value.kv[k].kind \notin {"null", "object"} =>
           k \in DOMAIN ret.kv /\ ret.kv[k] = args.value.kv[k]
    /\ args.value = EmptyObj => ret = EmptyObj
    /\ args.value = NestedExample => ret = NestedExampleNormalized

C7_Witness ==
  /\ Returned("normalizeValue")
  /\ args.value = NestedExample
  /\ ret = NestedExampleNormalized

\* C8: normalizeValue applied to a value it returned returns that value.
C8_Idempotent ==
  Returned("normalizeValue") => normalizeValue(ret) = ret

\* A mapping whose nested mapping holds only nulls: it normalizes to {}.
C8_Witness ==
  /\ Returned("normalizeValue")
  /\ args.value.kind = "object"
  /\ \E k \in DOMAIN args.value.kv :
       /\ args.value.kv[k].kind = "object"
       /\ \E j \in DOMAIN args.value.kv[k].kv : args.value.kv[k].kv[j] = Null
  /\ ret = EmptyObj
  /\ normalizeValue(ret) = ret

(***************************************************************************)
(* Properties of the component resolver                                    *)
(***************************************************************************)
HasPath(registry) == "path" \in DOMAIN registry.kv

HasEntry(registry, key) ==
  HasPath(registry) /\ key \in DOMAIN registry.kv["path"].kv

EntryAt(registry, key) == registry.kv["path"].kv[key]

\* C3 as stated: the path of the result is the path mapping of the nested
\* sub-registry at registry.path[key] when type is "object" and there is
\* one; in every other case the input registry is returned unchanged.
C3_RepackAsStated ==
  Returned("repackComponents") =>
    IF /\ args.type = "object"
       /\ HasEntry(args.components, args.key)
       /\ EntryAt(args.components, args.key).kind = "object"
      THEN "path" \in DOMAIN EntryAt(args.components, args.key).kv =>
             ret = Put(args.components, "path",
                       EntryAt(args.components, args.key).kv["path"])
      ELSE ret = args.components

\* C3, amended: when type is "object" and the registry has a path, the
\* result is the input with its path replaced by registry.path[key] itself,
\* whatever that is (undefined when the key is absent); otherwise the input
\* registry is returned unchanged.
C3_RepackReplacesPath ==
  Returned("repackComponents") =>
    IF args.type = "object" /\ HasPath(args.components)
      THEN /\ DOMAIN ret.kv = DOMAIN args.components.kv
           /\ \A t \in DOMAIN ret.kv \ {"path"} : ret.kv[t] = args.components.kv[t]
           /\ ret.kv["path"] =
                IF HasEntry(args.components, args.key)
                  THEN EntryAt(args.components, args.key)
                  ELSE Undefined
      ELSE ret = args.components

C3_Witness ==
  /\ Returned("repackComponents")
  /\ args.type = "object"
  /\ args.key = "address"
  /\ HasPath(args.components)
  /\ args.components.kv["path"] = NestedPathExample
  /\ ret.kv["path"] = Obj([p \in {"path"} |-> Obj([c \in {"city"} |-> CompB])])

\* C4: getComponent and getComponentProps return the component and the props
\* of a pair override, the bare component and no props for a bare override,
\* registry.object and no props when the key has no override, and
\* registry[type] and no props for a type other than "object", whatever the
\* registry's path holds.
C4_ResolveOverride ==
  LET registry == args.components
      object == args.type = "object"
      entry == EntryAt(registry, args.key)
      pair == HasEntry(registry, args.key) /\ entry.kind = "array"
      bare == HasEntry(registry, args.key) /\ entry.kind = "component"
  IN /\ Returned("getComponent") =>
          /\ (object /\ pair) => ret = entry.items[1]
          /\ (object /\ bare) => ret = entry
          /\ (object /\ ~HasEntry(registry, args.key)) => ret = registry.kv["object"]
          /\ ~object => ret = registry.kv[args.type]
     /\ Returned("getComponentProps") =>
          /\ (object /\ pair) => ret = entry.items[2]
          /\ (object /\ bare) => ret = EmptyObj
          /\ (object /\ ~HasEntry(registry, args.key)) => ret = EmptyObj
          /\ ~object => ret = EmptyObj

C4_Witness ==
  /\ Returned("getComponent")
  /\ args.type = "object"
  /\ args.key = "name"
  /\ HasEntry(args.components, "name")
  /\ EntryAt(args.components, "name") = Pair(CompA, PropsX)
  /\ ret = CompA

====
